---- MODULE Spec2Model ----
(***************************************************************************)
(* Model of the langgraph-cli-sample agent: the call_model / call_tools    *)
(* graph of agent.py, compiled with a checkpointer, and the CLI operations *)
(* of main.py (send, replay, sessions, history) that drive it.             *)
(*                                                                         *)
(* The checkpoint store is the LangGraph saver the code opens with         *)
(* create_checkpointer().  The graph runtime is modelled as the code uses  *)
(* it: ainvoke() loads a checkpoint of the thread, writes an "input"       *)
(* checkpoint when it is given an input, then runs one node per super-step *)
(* and creates one "loop" checkpoint after each.  ainvoke() is called with *)
(* the default durability, so each checkpoint is handed to a background    *)
(* writer (in creation order) and the next node may start before the write *)
(* has completed; the writes are awaited when ainvoke() exits.             *)
(***************************************************************************)
EXTENDS Integers, Sequences, FiniteSets, TLC

\* ------------------------------------------------------------------ bounds
\* Checkpoints created over a whole behaviour (the id clock stops there).
MaxCkpt == 5
\* Failures injected over a whole behaviour.
MaxFaults == 1

\* ------------------------------------------------------------- vocabulary
Sessions == {"s1"}
\* What uuid4().hex[:8] can return, and the session identifiers a send
\* without --session-id makes of it.  The 2^32 tokens are reduced to one:
\* the first send that draws it gets an identifier new to the store, a later
\* one draws a token that has been drawn before.
Uuids == {"1"}
auto_session_id(uuid) == "auto_" \o uuid
AutoIds == {auto_session_id(uuid) : uuid \in Uuids}
UserTexts == {"q"}

NoId == 0
START == "__start__"
END == "__end__"

\* tools.py: the two registered tools, by their @tool names.
tool_map == {"get_current_time_tool", "calculator_tool"}

Msg(type, content, tool_calls, tool_call_id, name) ==
    [type |-> type, content |-> content, tool_calls |-> tool_calls,
     tool_call_id |-> tool_call_id, name |-> name]

HumanMessage(content) == Msg("human", content, <<>>, "", "")
AIMessage(content, tool_calls) == Msg("ai", content, tool_calls, "", "")
ToolMessage(content, tool_call_id, name) == Msg("tool", content, <<>>, tool_call_id, name)

ToolCall(name, args, id) == [name |-> name, args |-> args, id |-> id]

\* What the language model can answer to one llm.invoke: a final text, an
\* empty final text, or a batch of tool requests, with or without a text
\* beside them (request ids are unique within the message).  Arguments are abstracted to what the tool does with
\* them: "valid", "bad_expr" (eval fails inside calculator) and "bad_args"
\* (the arguments do not fit the tool's schema, so invoke raises).
Responses ==
    { AIMessage("answer", <<>>),
      AIMessage("", <<>>),
      AIMessage("checking", <<ToolCall("calculator_tool", "bad_args", "c1"),
                              ToolCall("get_current_time_tool", "valid", "c2")>>),
      AIMessage("", <<ToolCall("unknown_tool", "valid", "c1"),
                      ToolCall("calculator_tool", "bad_expr", "c2"),
                      ToolCall("calculator_tool", "valid", "c3")>>) }

\* ------------------------------------------------------------------ tools.py
\* calculator: eval(expression); its own except turns a failing eval into a
\* returned string.
calculator(args) ==
    IF args = "bad_expr" THEN "calc_error: e" ELSE "5"

get_current_time(args) == "2026-01-01 00:00:00"

\* tool_map[tool_name].invoke(tool_args): the schema check raises on
\* arguments that do not fit, otherwise the tool's function runs.
invoke(tool_name, tool_args) ==
    IF tool_name = "calculator_tool"
    THEN IF tool_args = "bad_args"
         THEN [raised |-> TRUE, value |-> "validation error"]
         ELSE [raised |-> FALSE, value |-> calculator(tool_args)]
    ELSE [raised |-> FALSE, value |-> get_current_time(tool_args)]

\* ------------------------------------------------------------------ agent.py
State(messages, next_action) == [messages |-> messages, next_action |-> next_action]

\* call_model deciding on hasattr(response, 'tool_calls') alone.
call_model_hasattr(state, response) ==
    State(state.messages \o <<response>>,
          IF response.type = "ai" THEN "call_tools" ELSE "end")

\* call_model, given the response llm.invoke returned.
call_model(state, response) ==
    LET updated_messages == state.messages \o <<response>>
        filtered_messages ==
            SelectSeq(updated_messages, LAMBDA m : m.type \in {"human", "ai", "tool"})
    IN  State(filtered_messages,
              IF response.type = "ai" /\ response.tool_calls # <<>>
              THEN "call_tools" ELSE "end")

\* The loop body answering a request for an unregistered tool with an error
\* result instead of skipping it.
tool_call_messages_unknown(tool_call) ==
    IF tool_call.name \in tool_map
    THEN LET r == invoke(tool_call.name, tool_call.args)
         IN  IF r.raised
             THEN <<ToolMessage("Error: " \o r.value, tool_call.id, tool_call.name)>>
             ELSE <<ToolMessage(r.value, tool_call.id, tool_call.name)>>
    ELSE <<ToolMessage("Error: unknown tool", tool_call.id, tool_call.name)>>

\* The body of the for loop of call_tools for one tool_call: the messages it
\* appends to new_messages.
tool_call_messages(tool_call) ==
    IF tool_call.name \in tool_map
    THEN LET r == invoke(tool_call.name, tool_call.args)
         IN  IF r.raised
             THEN <<ToolMessage("Error: " \o r.value, tool_call.id, tool_call.name)>>
             ELSE <<ToolMessage(r.value, tool_call.id, tool_call.name)>>
    ELSE <<>>

\* The for loop left at the first tool that raises.
RECURSIVE new_messages_break(_)
new_messages_break(tool_calls) ==
    IF tool_calls = <<>> THEN <<>>
    ELSE LET tool_call == Head(tool_calls)
         IN  IF tool_call.name \in tool_map /\ invoke(tool_call.name, tool_call.args).raised
             THEN <<>>
             ELSE tool_call_messages(tool_call) \o new_messages_break(Tail(tool_calls))

\* The for loop inserting each result at the front.
RECURSIVE new_messages_front(_)
new_messages_front(tool_calls) ==
    IF tool_calls = <<>> THEN <<>>
    ELSE new_messages_front(Tail(tool_calls)) \o tool_call_messages(Head(tool_calls))

RECURSIVE new_messages(_)
new_messages(tool_calls) ==
    IF tool_calls = <<>> THEN <<>>
    ELSE tool_call_messages(Head(tool_calls)) \o new_messages(Tail(tool_calls))

\* call_tools returning only the messages it made.
call_tools_only_new(state) ==
    State(new_messages(state.messages[Len(state.messages)].tool_calls), "call_model")

call_tools(state) ==
    LET messages == state.messages
        last_message == messages[Len(messages)]
        new == IF last_message.type = "ai" /\ last_message.tool_calls # <<>>
               THEN new_messages(last_message.tool_calls) ELSE <<>>
    IN  State(messages \o new, "call_model")

should_continue(state) == state["next_action"]

\* The edges with call_tools wired to END instead of back to call_model.
next_node_tools_end(node, state) ==
    CASE node = START -> "call_model"
      [] node = "call_model" ->
            IF should_continue(state) = "call_tools" THEN "call_tools" ELSE END
      [] node = "call_tools" -> END

\* create_agent_graph: the edges.  The node that runs after `node` has
\* produced `state`.
next_node(node, state) ==
    CASE node = START -> "call_model"
      [] node = "call_model" ->
            IF should_continue(state) = "call_tools" THEN "call_tools" ELSE END
      [] node = "call_tools" -> "call_model"

\* --------------------------------------------------------- checkpoint store
\* One stored checkpoint.  id is the checkpoint_id (time-ordered), parent
\* the checkpoint it was derived from, step the metadata step, has_values
\* whether channel_values holds the graph's channels, values those channels,
\* next the node pending at this checkpoint and input the pending input of
\* the START node.
NoState == State(<<>>, "")

Checkpoint(sid, id, parent, step, source, has_values, values, next, input) ==
    [sid |-> sid, id |-> id, parent |-> parent, step |-> step, source |-> source,
     has_values |-> has_values, values |-> values, next |-> next, input |-> input]

OfThread(st, sid) == {c \in st : c.sid = sid}

\* checkpointer.aget_tuple(config) without checkpoint_id: the thread's
\* checkpoint with the greatest id, or none.
HasLatest(st, sid) == OfThread(st, sid) # {}
Latest(st, sid) ==
    CHOOSE c \in OfThread(st, sid) : \A d \in OfThread(st, sid) : d.id <= c.id

\* checkpointer.aget_tuple(config) with a checkpoint_id: that checkpoint of
\* the thread, or none.
HasAt(st, sid, id) == \E c \in OfThread(st, sid) : c.id = id
At(st, sid, id) == CHOOSE c \in OfThread(st, sid) : c.id = id

\* A store keyed by (thread_id, step).
aput_by_step(st, c) == {d \in st : ~(d.sid = c.sid /\ d.step = c.step)} \cup {c}

\* checkpointer.aput: the row keyed by (thread_id, checkpoint_id) is
\* inserted, replacing a row with the same key.
aput(st, c) == {d \in st : ~(d.sid = c.sid /\ d.id = c.id)} \cup {c}

\* get_session_history without the thread_id in its config: the latest
\* checkpoint of the whole store.
get_session_history_any(st, session_id) ==
    IF st # {}
    THEN (CHOOSE c \in st : \A d \in st : d.id <= c.id).values.messages
    ELSE <<>>

\* get_session_history reading the oldest checkpoint of the thread.
get_session_history_oldest(st, session_id) ==
    IF HasLatest(st, session_id)
    THEN (CHOOSE c \in OfThread(st, session_id) :
            \A d \in OfThread(st, session_id) : c.id <= d.id).values.messages
    ELSE <<>>

\* get_session_history: the messages of the latest checkpoint, [] if the
\* thread has none or its channel_values holds no messages.
get_session_history(st, session_id) ==
    IF HasLatest(st, session_id) /\ Latest(st, session_id).has_values
    THEN Latest(st, session_id).values.messages
    ELSE <<>>

\* Every session identifier, in the order sorted() gives.
SortedIds == <<"auto_1", "s1">>

\* checkpointer.alist(RunnableConfig(configurable={})): the config names no
\* thread_id.  A saver that builds its filter only from the keys present
\* lists the checkpoints of every thread; a saver that reads
\* config["configurable"]["thread_id"] whenever a config is given raises
\* KeyError.  `accepted` says which of the two the saver in use does.
alist(st, accepted) ==
    [raised |-> ~accepted, rows |-> IF accepted THEN st ELSE {}]

\* list_sessions: the sorted distinct thread ids of the checkpoints alist
\* yields; [] when alist raises (the except branch).
list_sessions(st, accepted) ==
    LET listing == alist(st, accepted)
        sessions == {c.sid : c \in {d \in listing.rows : d.sid # ""}}
    IN  IF listing.raised THEN <<>>
        ELSE SelectSeq(SortedIds, LAMBDA s : s \in sessions)

\* No history has been shown yet (or a turn ran on its session since).
NoShown == [sid |-> "", messages |-> <<>>, replayed |-> FALSE, again |-> FALSE]

\* ------------------------------------------------------------------- state
VARIABLES
    store,      \* the checkpoints durably written
    clock,      \* checkpoints created so far (ids are time-ordered)
    pc,         \* "idle" | "loop" | "read" | "exit" | "done": position of the CLI operation
    op,         \* "none" | "send" | "replay" | "sessions" | "history"
    session,    \* thread_id of the running / last operation
    handle,     \* TRUE while the checkpointer of create_checkpointer() is open
    channels,   \* the graph state in memory
    has_values, \* whether the channels have been written
    node,       \* the node to run next: START, call_model, call_tools, END
    step,       \* metadata step of the last checkpoint created or loaded
    parent,     \* id of the last checkpoint created or loaded
    input,      \* initial_state waiting for the START node
    pending,    \* checkpoints handed to the background writer, oldest first
    put_error,  \* a background write has raised
    outcome,    \* how the last operation ended
    answer,     \* what the last operation printed as the answer
    base,       \* the store when the operation began
    from,       \* the checkpoint a replay began from (NoId for a send)
    seed,       \* the transcript the operation started the loop with
    ran,        \* the nodes the operation has run, in order
    faults,     \* failures injected so far (model, store write, cancellation)
    exc,        \* the exception ainvoke raised: "none" | "model" | "no_input"
    lost,       \* ids of the checkpoints whose write raised
    final,      \* per session, the final transcript of its last completed turn
    replayed,   \* per session, whether a replay ran since that turn
    result,     \* what get_session_history / list_sessions returned to the command
    generated,  \* the running send made its own session identifier
    shown       \* the last history shown, and what ran on its session since

vars == <<store, clock, pc, op, session, handle, channels, has_values, node, step,
          parent, input, pending, put_error, outcome, answer, base, from, seed, ran,
          faults, exc, lost, final, replayed, result, generated, shown>>

Init ==
    /\ store = {}
    /\ clock = 0
    /\ pc = "idle"
    /\ op = "none"
    /\ session = "s1"
    /\ handle = FALSE
    /\ channels = NoState
    /\ has_values = FALSE
    /\ node = END
    /\ step = -2
    /\ parent = NoId
    /\ input = NoState
    /\ pending = <<>>
    /\ put_error = FALSE
    /\ outcome = "none"
    /\ answer = "none"
    /\ base = {}
    /\ from = NoId
    /\ seed = <<>>
    /\ ran = <<>>
    /\ faults = 0
    /\ exc = "none"
    /\ lost = {}
    /\ final = [s \in Sessions \cup AutoIds |-> <<>>]
    /\ replayed = [s \in Sessions \cup AutoIds |-> FALSE]
    /\ result = <<>>
    /\ generated = FALSE
    /\ shown = NoShown

\* ------------------------------------------------------------ graph runtime
\* The checkpoint the runtime creates after a super-step (or for the input):
\* it gets the next id, and goes to the background writer.
\* Checkpoint ids derived from the step number.
step_checkpoint_id(clk, stp) == stp + 3

\* The id of a new checkpoint: a time-ordered uuid6, here the tick of the
\* clock at which it is created.
new_checkpoint_id(clk, stp) == clk + 1

CreateCheckpoint(sid, par, stp, source, values_written, values, next, inp) ==
    /\ clock < MaxCkpt
    /\ clock' = clock + 1
    /\ step' = stp + 1
    /\ parent' = new_checkpoint_id(clock, stp)
    /\ pending' = Append(pending,
            Checkpoint(sid, new_checkpoint_id(clock, stp), par, stp + 1, source,
                       values_written, values, next, inp))

\* The background writer completes the oldest outstanding aput.
Flush ==
    /\ pc \in {"loop", "exit"}
    /\ pending # <<>>
    /\ store' = aput(store, Head(pending))
    /\ pending' = Tail(pending)
    /\ UNCHANGED <<clock, pc, op, session, handle, channels, has_values, node, step,
                   parent, input, put_error, outcome, answer, base, from, seed, ran,
                   faults, exc, lost, final, replayed,
                   result, generated, shown>>

\* The oldest outstanding aput raises: nothing is stored for it; the writes
\* queued behind it are still attempted.
FlushFail ==
    /\ pc \in {"loop", "exit"}
    /\ pending # <<>>
    /\ faults < MaxFaults
    /\ faults' = faults + 1
    /\ put_error' = TRUE
    /\ lost' = lost \cup {Head(pending).id}
    /\ pending' = Tail(pending)
    /\ UNCHANGED <<store, clock, pc, op, session, handle, channels, has_values, node,
                   step, parent, input, outcome, answer, base, from, seed, ran, exc,
                   final, replayed,
                   result, generated, shown>>

\* The START node: writes the input to the channels (step 0 of a turn).
StartNode ==
    /\ pc = "loop"
    /\ node = START
    /\ channels' = input
    /\ has_values' = TRUE
    /\ node' = next_node(START, input)
    /\ ran' = Append(ran, START)
    /\ CreateCheckpoint(session, parent, step, "loop", TRUE, input, next_node(START, input), NoState)
    /\ UNCHANGED <<store, pc, op, session, handle, input, put_error, outcome, answer,
                   base, from, seed, faults, exc, lost, final, replayed,
                   result, generated, shown>>

\* The call_model node, llm.invoke returning `response`.
CallModel(response) ==
    /\ pc = "loop"
    /\ node = "call_model"
    /\ LET new == call_model(channels, response)
       IN  /\ channels' = new
           /\ node' = next_node("call_model", new)
           /\ CreateCheckpoint(session, parent, step, "loop", TRUE, new, next_node("call_model", new), NoState)
    /\ has_values' = TRUE
    /\ ran' = Append(ran, "call_model")
    /\ UNCHANGED <<store, pc, op, session, handle, input, put_error, outcome, answer,
                   base, from, seed, faults, exc, lost, final, replayed,
                   result, generated, shown>>

\* llm.invoke raises and the node is run again.
CallModelFail_Retry ==
    /\ pc = "loop"
    /\ node = "call_model"
    /\ faults < MaxFaults
    /\ faults' = faults + 1
    /\ exc' = "model"
    /\ ran' = Append(ran, "call_model")
    /\ UNCHANGED <<store, clock, pc, op, session, handle, channels, has_values, node,
                   step, parent, input, pending, put_error, outcome, answer, base, from,
                   seed, lost, final, replayed,
                   result, generated, shown>>

\* llm.invoke raises and the turn is rolled back: the checkpoints it has
\* made so far are discarded.
CallModelFail_Rollback ==
    /\ pc = "loop"
    /\ node = "call_model"
    /\ faults < MaxFaults
    /\ faults' = faults + 1
    /\ pc' = "exit"
    /\ exc' = "model"
    /\ ran' = Append(ran, "call_model")
    /\ store' = base
    /\ pending' = <<>>
    /\ UNCHANGED <<clock, op, session, handle, channels, has_values, node, step,
                   parent, input, put_error, outcome, answer, base, from, seed,
                   lost, final, replayed, result, generated, shown>>

\* llm.invoke raises inside call_model: the exception leaves ainvoke.
CallModelFail ==
    /\ pc = "loop"
    /\ node = "call_model"
    /\ faults < MaxFaults
    /\ faults' = faults + 1
    /\ pc' = "exit"
    /\ exc' = "model"
    /\ ran' = Append(ran, "call_model")
    /\ UNCHANGED <<store, clock, op, session, handle, channels, has_values, node, step,
                   parent, input, pending, put_error, outcome, answer, base, from, seed,
                   lost, final, replayed,
                   result, generated, shown>>

\* The call_tools node.
CallTools ==
    /\ pc = "loop"
    /\ node = "call_tools"
    /\ LET new == call_tools(channels)
       IN  /\ channels' = new
           /\ node' = next_node("call_tools", new)
           /\ CreateCheckpoint(session, parent, step, "loop", TRUE, new, next_node("call_tools", new), NoState)
    /\ has_values' = TRUE
    /\ ran' = Append(ran, "call_tools")
    /\ UNCHANGED <<store, pc, op, session, handle, input, put_error, outcome, answer,
                   base, from, seed, faults, exc, lost, final, replayed,
                   result, generated, shown>>

\* No node is left to run: ainvoke leaves the loop.
LoopEnd ==
    /\ pc = "loop"
    /\ node = END
    /\ pc' = "exit"
    /\ UNCHANGED <<store, clock, op, session, handle, channels, has_values, node, step,
                   parent, input, pending, put_error, outcome, answer, base, from, seed,
                   ran, faults, exc, lost, final, replayed,
                   result, generated, shown>>

\* A failed background write is noticed while the loop runs.
NoticePutError ==
    /\ pc = "loop"
    /\ put_error
    /\ pc' = "exit"
    /\ UNCHANGED <<store, clock, op, session, handle, channels, has_values, node, step,
                   parent, input, pending, put_error, outcome, answer, base, from, seed,
                   ran, faults, exc, lost, final, replayed,
                   result, generated, shown>>

\* ------------------------------------------------------------------ main.py
\* A checkpointer closed only when the block ends without an exception.
aexit_on_success(failed) == failed

\* Leaving `async with create_checkpointer() as checkpointer`: whether the
\* handle is still open afterwards.  The context manager closes it whether
\* the block has `failed` (an exception or a cancellation leaves it) or not.
aexit(failed) == FALSE

\* The answer send_message / send_replay print: the content of the last
\* AIMessage with a non-empty content, searching from the end.
RECURSIVE last_ai_content(_)
last_ai_content(messages) ==
    IF messages = <<>> THEN "none"
    ELSE LET message == messages[Len(messages)]
         IN  IF message.type = "ai" /\ message.content # ""
             THEN message.content
             ELSE last_ai_content(SubSeq(messages, 1, Len(messages) - 1))

\* send_message up to the first super-step: the checkpointer is opened, the
\* history read, initial_state built, and ainvoke(initial_state) loads the
\* thread's latest checkpoint and creates the input checkpoint.
SendBegin(session_id, message) ==
    /\ pc = "idle"
    /\ LET existing_messages == get_session_history(store, session_id)
           all_messages == existing_messages \o <<HumanMessage(message)>>
           initial_state == State(all_messages, "call_model")
           resumed == HasLatest(store, session_id)
           saved == Latest(store, session_id)
       IN  /\ input' = initial_state
           /\ seed' = all_messages
           /\ channels' = IF resumed THEN saved.values ELSE NoState
           /\ has_values' = (resumed /\ saved.has_values)
           /\ CreateCheckpoint(session_id,
                               IF resumed THEN saved.id ELSE NoId,
                               IF resumed THEN saved.step ELSE -2,
                               "input",
                               resumed /\ saved.has_values,
                               IF resumed THEN saved.values ELSE NoState,
                               START, initial_state)
    /\ pc' = "loop"
    /\ op' = "send"
    /\ session' = session_id
    /\ handle' = TRUE
    /\ node' = START
    /\ put_error' = FALSE
    /\ outcome' = "running"
    /\ answer' = "none"
    /\ base' = store
    /\ from' = NoId
    /\ ran' = <<>>
    /\ exc' = "none"
    /\ shown' = IF shown.sid = session_id THEN NoShown ELSE shown
    /\ UNCHANGED <<store, faults, lost, final, replayed, result>>

\* send: with --session-id, or with an identifier generated from uuid4.
Send ==
    \E message \in UserTexts :
        \/ \E session_id \in Sessions :
              SendBegin(session_id, message) /\ generated' = FALSE
        \/ \E uuid \in Uuids :
              SendBegin(auto_session_id(uuid), message) /\ generated' = TRUE

\* A replay that starts with a model call whatever is pending.
resume_at_model(saved) == "call_model"

\* ainvoke(None, config) with a checkpoint_id: the node the loop resumes at
\* is the one pending at the loaded checkpoint.
resume_node(saved) == saved.next

\* send_replay up to the first super-step: ainvoke(None) with a
\* checkpoint_id loads that checkpoint and resumes at its pending node;
\* with no such checkpoint there is no input and ainvoke raises.
Replay ==
    \E session_id \in Sessions \cup AutoIds, checkpoint_id \in 1..MaxCkpt :
        /\ pc = "idle"
        /\ op' = "replay"
        /\ session' = session_id
        /\ handle' = TRUE
        /\ put_error' = FALSE
        /\ answer' = "none"
        /\ base' = store
        /\ ran' = <<>>
        /\ IF HasAt(store, session_id, checkpoint_id)
           THEN LET saved == At(store, session_id, checkpoint_id)
                IN  /\ channels' = saved.values
                    /\ has_values' = saved.has_values
                    /\ node' = resume_node(saved)
                    /\ input' = saved.input
                    /\ step' = saved.step
                    /\ parent' = saved.id
                    /\ from' = saved.id
                    /\ seed' = saved.values.messages
                    /\ pc' = "loop"
                    /\ exc' = "none"
           ELSE /\ channels' = NoState
                /\ has_values' = FALSE
                /\ node' = END
                /\ input' = NoState
                /\ step' = -2
                /\ parent' = NoId
                /\ from' = NoId
                /\ seed' = <<>>
                /\ pc' = "exit"
                /\ exc' = "no_input"
        /\ outcome' = "running"
        /\ replayed' = [replayed EXCEPT ![session_id] = TRUE]
        /\ shown' = IF shown.sid = session_id
                    THEN [shown EXCEPT !.replayed = TRUE] ELSE shown
        /\ UNCHANGED <<store, clock, pending, faults, lost, final, result, generated>>

\* ainvoke has returned or raised and the outstanding writes are done: the
\* answer or the error is printed and the async with block releases the
\* checkpointer.
Close ==
    /\ pc = "exit"
    /\ pending = <<>>
    /\ pc' = "done"
    /\ handle' = aexit(exc # "none" \/ put_error)
    /\ IF exc # "none" \/ put_error
       THEN /\ outcome' = "error"
            /\ answer' = "none"
            /\ UNCHANGED <<final, replayed>>
       ELSE /\ outcome' = "done"
            /\ answer' = last_ai_content(channels.messages)
            /\ IF op = "send"
               THEN /\ final' = [final EXCEPT ![session] = channels.messages]
                    /\ replayed' = [replayed EXCEPT ![session] = FALSE]
               ELSE UNCHANGED <<final, replayed>>
    /\ UNCHANGED <<store, clock, op, session, channels, has_values, node, step, parent,
                   input, pending, put_error, base, from, seed, ran, faults, exc, lost,
                   result, generated, shown>>

\* The operation is cancelled while ainvoke runs: the writes not yet done
\* are lost, nothing is printed, the checkpointer is released.
Cancel ==
    /\ pc \in {"loop", "exit"}
    /\ faults < MaxFaults
    /\ faults' = faults + 1
    /\ pc' = "done"
    /\ handle' = aexit(TRUE)
    /\ pending' = <<>>
    /\ outcome' = "cancelled"
    /\ answer' = "none"
    /\ UNCHANGED <<store, clock, op, session, channels, has_values, node, step, parent,
                   input, put_error, base, from, seed, ran, exc, lost, final, replayed,
                   result, generated, shown>>

\* A history command that prints the (empty) transcript without the "not
\* found" line.
history_signal_silent(messages) == "done"

\* What the history command reports for the messages it got: the
\* "not found" line for an empty list, the transcript otherwise.
history_signal(messages) == IF messages = <<>> THEN "not_found" ELSE "done"

\* The history command up to the read: the checkpointer is opened.
History ==
    \E session_id \in Sessions \cup AutoIds :
        /\ pc = "idle"
        /\ pc' = "read"
        /\ op' = "history"
        /\ session' = session_id
        /\ handle' = TRUE
        /\ outcome' = "running"
        /\ base' = store
        /\ UNCHANGED <<store, clock, channels, has_values, node, step, parent, input,
                       pending, put_error, answer, from, seed, ran, faults, exc, lost,
                       final, replayed, result, generated, shown>>

\* A history command that removes the checkpoint it has shown.
HistoryRead_consuming(record) ==
    /\ pc = "read"
    /\ op = "history"
    /\ LET messages == get_session_history(store, session)
       IN  /\ result' = messages
           /\ outcome' = history_signal(messages)
           /\ shown' = IF record
                       THEN [sid |-> session, messages |-> messages,
                             replayed |-> FALSE, again |-> (shown.sid = session)]
                       ELSE shown
    /\ store' = IF HasLatest(store, session)
                THEN store \ {Latest(store, session)} ELSE store
    /\ pc' = "done"
    /\ handle' = aexit(FALSE)
    /\ UNCHANGED <<clock, op, session, channels, has_values, node, step, parent,
                   input, pending, put_error, answer, base, from, seed, ran, faults,
                   exc, lost, final, replayed, generated>>

\* The history command: get_session_history, the transcript or the "not
\* found" line printed, the checkpointer released.  With `record` the
\* transcript shown is also remembered in the history variable `shown`.
HistoryRead(record) ==
    /\ pc = "read"
    /\ op = "history"
    /\ LET messages == get_session_history(store, session)
       IN  /\ result' = messages
           /\ outcome' = history_signal(messages)
           /\ shown' = IF record
                       THEN [sid |-> session, messages |-> messages,
                             replayed |-> FALSE, again |-> (shown.sid = session)]
                       ELSE shown
    /\ pc' = "done"
    /\ handle' = aexit(FALSE)
    /\ UNCHANGED <<store, clock, op, session, channels, has_values, node, step, parent,
                   input, pending, put_error, answer, base, from, seed, ran, faults,
                   exc, lost, final, replayed, generated>>

\* The sessions command up to the read: the checkpointer is opened.
ListSessions ==
    /\ pc = "idle"
    /\ pc' = "read"
    /\ op' = "sessions"
    /\ handle' = TRUE
    /\ outcome' = "running"
    /\ base' = store
    /\ UNCHANGED <<store, clock, session, channels, has_values, node, step, parent,
                   input, pending, put_error, answer, from, seed, ran, faults, exc,
                   lost, final, replayed, result, generated, shown>>

\* The sessions command: list_sessions, the table or the "not found" line
\* printed, the checkpointer released.
SessionsRead ==
    /\ pc = "read"
    /\ op = "sessions"
    /\ \E accepted \in BOOLEAN :
          LET session_list == list_sessions(store, accepted)
          IN  /\ result' = session_list
              /\ outcome' = IF session_list = <<>> THEN "not_found" ELSE "done"
    /\ pc' = "done"
    /\ handle' = aexit(FALSE)
    /\ UNCHANGED <<store, clock, op, session, channels, has_values, node, step, parent,
                   input, pending, put_error, answer, base, from, seed, ran, faults,
                   exc, lost, final, replayed, generated, shown>>

\* The process of the operation ends; only the store outlives it.
Return ==
    /\ pc = "done"
    /\ pc' = "idle"
    /\ op' = "none"
    /\ session' = "s1"
    /\ channels' = NoState
    /\ has_values' = FALSE
    /\ node' = END
    /\ step' = -2
    /\ parent' = NoId
    /\ input' = NoState
    /\ put_error' = FALSE
    /\ outcome' = "none"
    /\ answer' = "none"
    /\ base' = {}
    /\ from' = NoId
    /\ seed' = <<>>
    /\ ran' = <<>>
    /\ exc' = "none"
    /\ lost' = {}
    /\ result' = <<>>
    /\ generated' = FALSE
    /\ UNCHANGED <<store, clock, handle, pending, faults, final, replayed, shown>>

Next ==
    \/ Send
    \/ Replay
    \/ History
    \/ HistoryRead(FALSE)
    \/ ListSessions
    \/ SessionsRead
    \/ StartNode
    \/ \E response \in Responses : CallModel(response)
    \/ CallModelFail
    \/ CallTools
    \/ LoopEnd
    \/ NoticePutError
    \/ Flush
    \/ FlushFail
    \/ Close
    \/ Cancel
    \/ Return

Spec == Init /\ [][Next]_vars

\* The operations with every call returning (no model failure, no failed
\* write, no cancellation), the history command remembering what it showed.
QueryNext ==
    \/ Send
    \/ Replay
    \/ History
    \/ HistoryRead(TRUE)
    \/ StartNode
    \/ \E response \in Responses : CallModel(response)
    \/ CallTools
    \/ LoopEnd
    \/ Flush
    \/ Close
    \/ Return

QuerySpec == Init /\ [][QueryNext]_vars

\* Turns alone with every call returning.  The runtime runs the node that is
\* due, the writer completes the writes handed to it, the command prints and
\* exits; the model does not ask for tools for ever.
CallModelFinal ==
    \E response \in Responses : response.tool_calls = <<>> /\ CallModel(response)

TurnNext ==
    \/ Send
    \/ StartNode
    \/ \E response \in Responses : CallModel(response)
    \/ CallTools
    \/ LoopEnd
    \/ Flush
    \/ Close
    \/ Return

TurnSpec ==
    /\ Init
    /\ [][TurnNext]_vars
    /\ WF_vars(StartNode)
    /\ WF_vars(\E response \in Responses : CallModel(response))
    /\ SF_vars(CallModelFinal)
    /\ WF_vars(CallTools)
    /\ WF_vars(LoopEnd)
    /\ WF_vars(Flush)
    /\ WF_vars(Close)

\* -------------------------------------------------------------- properties
Last(seq) == seq[Len(seq)]

IsPrefix(p, q) == Len(p) <= Len(q) /\ SubSeq(q, 1, Len(p)) = p

\* A super-step of the running operation has completed with `n` as its node
\* and the channels hold the state it produced.
Completed(n) ==
    /\ pc \in {"loop", "exit", "done"}
    /\ ran # <<>>
    /\ Last(ran) = n
    /\ exc # "model"

\* Position of the last assistant message of a transcript (0 if none).
LastAi(messages) ==
    IF \E i \in DOMAIN messages : messages[i].type = "ai"
    THEN CHOOSE i \in DOMAIN messages :
            /\ messages[i].type = "ai"
            /\ \A j \in DOMAIN messages : messages[j].type = "ai" => j <= i
    ELSE 0

\* After a tool step: the batch it ran and the messages it appended.
Batch == channels.messages[LastAi(channels.messages)].tool_calls
Results == SubSeq(channels.messages, LastAi(channels.messages) + 1, Len(channels.messages))

\* The tool result is one built by the except branch of call_tools.
is_error(m) == m.type = "tool" /\ m.content = "Error: validation error"

Raises(tool_call) ==
    tool_call.name = "calculator_tool" /\ tool_call.args = "bad_args"
Registered(tool_call) ==
    tool_call.name \in {"get_current_time_tool", "calculator_tool"}

\* C1: the state a completed model step produces has next_action =
\* "call_tools" exactly when the assistant message just appended carries a
\* tool request; otherwise next_action = "end" and the graph goes to END.
C1_NextActionIffToolCalls ==
    Completed("call_model") =>
        LET response == Last(channels.messages)
        IN  /\ response.type = "ai"
            /\ (channels.next_action = "call_tools") <=> (response.tool_calls # <<>>)
            /\ response.tool_calls # <<>> => node = "call_tools"
            /\ response.tool_calls = <<>> => channels.next_action = "end" /\ node = END

C1_Witness ==
    /\ Completed("call_model")
    /\ Last(channels.messages).tool_calls # <<>>
    /\ channels.next_action = "call_tools"
    /\ node = "call_tools"

\* C2: a tool that raises during a batch is contained to its request: the
\* failing request still gets a tool result, every later request of the
\* batch is still executed and answered, and the loop goes on to the model
\* step.
C2_ToolFailureContained ==
    (Completed("call_tools")
        /\ \E i \in DOMAIN Batch : Raises(Batch[i])) =>
        /\ \A i \in DOMAIN Batch :
              (Raises(Batch[i]) \/ (Registered(Batch[i]) /\ \E k \in 1..i : Raises(Batch[k])))
              => Cardinality({j \in DOMAIN Results :
                                /\ Results[j].type = "tool"
                                /\ Results[j].tool_call_id = Batch[i].id}) = 1
        /\ channels.next_action = "call_model"
        /\ node = "call_model"
        /\ exc = "none"

C2_Witness ==
    /\ Completed("call_tools")
    /\ Len(Batch) = 2
    /\ Raises(Batch[1])
    /\ ~Raises(Batch[2])
    /\ Len(Results) = 2
    /\ node = "call_model"

C3_DurableBeforeNextStep ==
    (Completed("call_model") \/ Completed("call_tools")) =>
        \A i \in DOMAIN pending : pending[i].id = parent

\* The running operation is a replay that found its checkpoint.
Replaying == op = "replay" /\ from # NoId /\ pc \in {"loop", "exit", "done"}

\* The checkpoints the running operation has written.
Written == store \ base

\* C4: the transcript of the checkpoint a replay starts from is an unaltered
\* prefix of the transcript at every point of the replay, of every
\* checkpoint the replay writes, and of its final transcript.
C4_ReplayKeepsCheckpointTranscript ==
    Replaying =>
        /\ \E saved \in store : saved.sid = session /\ saved.id = from
        /\ \A saved \in store :
              (saved.sid = session /\ saved.id = from) =>
                /\ IsPrefix(saved.values.messages, channels.messages)
                /\ \A c \in Written : IsPrefix(saved.values.messages, c.values.messages)

C4_Witness ==
    /\ Replaying
    /\ pc = "done"
    /\ outcome = "done"
    /\ seed # <<>>
    /\ Len(channels.messages) > Len(seed)
    /\ Written # {}

\* C5: a replay resumes at the step its checkpoint has pending: the tool
\* step on the recorded batch if the checkpoint recorded next_action
\* "call_tools", the model step if it recorded "call_model", no step if the
\* run had ended there; and a replay that completes ends at END.
C5_ReplayResumesAtPendingStep ==
    Replaying =>
        \A saved \in store :
            (saved.sid = session /\ saved.id = from) =>
                /\ ran # <<>> => ran[1] = saved.next
                /\ saved.next = END => ran = <<>>
                /\ saved.source = "loop" =>
                      /\ saved.values.next_action = "call_tools" => saved.next = "call_tools"
                      /\ saved.values.next_action = "call_model" => saved.next = "call_model"
                      /\ saved.values.next_action = "end" => saved.next = END
                /\ (Len(ran) = 1 /\ ran[1] = "call_tools") =>
                      /\ IsPrefix(saved.values.messages, channels.messages)
                      /\ \A j \in (Len(saved.values.messages) + 1)..Len(channels.messages) :
                            /\ channels.messages[j].type = "tool"
                            /\ \E k \in DOMAIN Last(saved.values.messages).tool_calls :
                                  Last(saved.values.messages).tool_calls[k].id
                                      = channels.messages[j].tool_call_id
                /\ (pc = "done" /\ outcome = "done") => node = END

C5_Witness ==
    /\ Replaying
    /\ pc = "done"
    /\ outcome = "done"
    /\ ran = <<"call_tools", "call_model">>
    /\ \E saved \in store :
          /\ saved.sid = session /\ saved.id = from
          /\ saved.values.next_action = "call_tools"

\* C6: a replay leaves every checkpoint that existed before it stored and
\* unchanged, and the checkpoints it writes are new ones of the same
\* session, with greater ids, descending from the checkpoint it started at.
C6_ReplayAppendsOnly ==
    (op = "replay" /\ pc \in {"loop", "exit", "done"}) =>
        /\ base \subseteq store
        /\ \A c \in Written :
              /\ c.sid = session
              /\ from # NoId
              /\ \A b \in base : b.id < c.id
              /\ c.parent = from \/ \A b \in base : b.id < c.parent

C6_Witness ==
    /\ Replaying
    /\ pc = "done"
    /\ outcome = "done"
    /\ Cardinality(Written) >= 2
    /\ \E b \in base : b.sid = session /\ b.id > from

\* The transcript of the checkpoint of `sid` with the greatest id in `st`.
LatestTranscript(st, sid) ==
    IF \E c \in st : c.sid = sid
    THEN (CHOOSE c \in st : c.sid = sid /\ \A d \in st : d.sid = sid => d.id <= c.id)
            .values.messages
    ELSE <<>>

\* A turn starts at the model step with the latest transcript of its session
\* followed by one user message.
TurnSeed ==
    (op = "send" /\ pc \in {"loop", "exit", "done"}) =>
        /\ \E text \in UserTexts :
              seed = LatestTranscript(base, session) \o <<HumanMessage(text)>>
        /\ ran # <<>> => ran[1] = START
        /\ Len(ran) = 1 => channels = State(seed, "call_model") /\ node = "call_model"
        /\ Len(ran) >= 2 => ran[2] = "call_model"

\* C7 as stated: TurnSeed, and the final transcript of the last completed
\* turn of the session is a prefix of the seed of its next turn (required
\* here only of runs in which nothing has failed or been cancelled).
C7_FinalIsPrefixOfNextSeed ==
    /\ TurnSeed
    /\ (op = "send" /\ pc \in {"loop", "exit"} /\ faults = 0)
          => IsPrefix(final[session], seed)

\* C7 (amended): TurnSeed, and the final transcript of the last completed
\* turn of the session is a prefix of the seed of its next turn when no
\* replay ran on the session in between.
C7_FinalIsPrefixUnlessReplayed ==
    /\ TurnSeed
    /\ (op = "send" /\ pc \in {"loop", "exit"} /\ ~replayed[session])
          => IsPrefix(final[session], seed)

C7_Witness ==
    /\ op = "send"
    /\ pc = "loop"
    /\ ran = <<START>>
    /\ final[session] # <<>>
    /\ ~replayed[session]
    /\ Len(seed) = Len(final[session]) + 1

\* C8 as stated: each checkpoint appended to a session has the key that
\* follows the key of the session's latest checkpoint (increasing, no gap),
\* here required only while every checkpoint created so far has been written.
C8_KeysWithoutGaps ==
    [][\A c \in store' \ store :
          ((\A i \in 1..c.id : \E d \in store' : d.id = i) /\ HasLatest(store, c.sid)) =>
              c.id = Latest(store, c.sid).id + 1]_vars

\* C8 (amended): each checkpoint appended to a session has a key greater
\* than the key of every checkpoint the session already has, so the key of
\* the latest checkpoint strictly increases and no key is used twice.
C8_KeysIncrease ==
    [][/\ \A c \in store' \ store : \A d \in OfThread(store, c.sid) : d.id < c.id
       /\ store \subseteq store'
       /\ \A sid \in Sessions \cup AutoIds :
             (HasLatest(store, sid) /\ OfThread(store', sid) # OfThread(store, sid))
                => Latest(store', sid).id > Latest(store, sid).id]_vars

C8_Witness ==
    /\ Replaying
    /\ Written # {}
    /\ \E b \in base : b.sid = session /\ b.id > from

\* C9: a failed or cancelled transition aborts the turn without retry, is
\* surfaced to the caller, leaves no checkpoint of its own, and leaves every
\* checkpoint written before it stored and unchanged.
C9_FailureLeavesNoCheckpoint ==
    /\ exc # "none" => pc \in {"exit", "done"}
    /\ (pc \in {"exit", "done"} /\ exc = "model") =>
          /\ Last(ran) = "call_model"
          /\ \A c \in Written \cup {pending[i] : i \in DOMAIN pending} :
                c.sid = session /\ c.id <= parent /\ c.parent # parent
    /\ (pc = "done" /\ (exc # "none" \/ put_error) /\ outcome # "cancelled") =>
          outcome = "error" /\ answer = "none"
    /\ (pc = "done" /\ outcome \in {"error", "cancelled"}) =>
          /\ base \subseteq store
          /\ \A c \in store : c.id \notin lost
          /\ \A c \in Written : c.sid = session /\ c.id <= parent
          /\ pending = <<>>

C9_Witness ==
    /\ pc = "done"
    /\ outcome = "error"
    /\ exc = "model"
    /\ \E b \in base : b.sid = session
    /\ Written # {}

\* C11: a request that names a tool outside the registry is skipped in
\* silence: the tool step appends no message carrying that request's id,
\* every request of the batch for a registered tool still gets exactly one
\* result, no exception escapes, and the loop goes on to the model step.
C11_UnknownToolSkipped ==
    (Completed("call_tools")
        /\ \E i \in DOMAIN Batch : ~Registered(Batch[i])) =>
        /\ \A i \in DOMAIN Batch :
              Cardinality({j \in DOMAIN Results : Results[j].tool_call_id = Batch[i].id})
                  = IF Registered(Batch[i]) THEN 1 ELSE 0
        /\ \A j \in DOMAIN Results : Results[j].type = "tool"
        /\ channels.next_action = "call_model"
        /\ node = "call_model"
        /\ exc = "none"

C11_Witness ==
    /\ Completed("call_tools")
    /\ Len(Batch) = 3
    /\ ~Registered(Batch[1])
    /\ Registered(Batch[2]) /\ Registered(Batch[3])
    /\ Len(Results) = 2
    /\ Results[1].tool_call_id = Batch[2].id
    /\ Results[2].tool_call_id = Batch[3].id
    /\ node = "call_model"

\* Every checkpoint made so far: written, or handed to the writer.
Checkpointed == store \cup {pending[i] : i \in DOMAIN pending}

\* C12: in every checkpointed conversation state, next_action is
\* "call_tools" only if the last message is an assistant message with tool
\* requests, and "end" only if the last message is an assistant message with
\* none.
C12_NextActionMatchesLastMessage ==
    \A c \in Checkpointed :
        c.has_values =>
            LET messages == c.values.messages
            IN  /\ c.values.next_action \in {"call_model", "call_tools", "end"}
                /\ c.values.next_action = "call_tools" =>
                      /\ messages # <<>>
                      /\ Last(messages).type = "ai"
                      /\ Last(messages).tool_calls # <<>>
                /\ c.values.next_action = "end" =>
                      /\ messages # <<>>
                      /\ Last(messages).type = "ai"
                      /\ Last(messages).tool_calls = <<>>

C12_Witness ==
    /\ \E c \in store : c.has_values /\ c.values.next_action = "call_tools"
    /\ \E c \in store : c.has_values /\ c.values.next_action = "end"
    /\ \E c \in store : c.has_values /\ c.values.next_action = "call_model"
                          /\ Last(c.values.messages).type = "tool"

\* The nodes ran in the order the loop prescribes: START first and only
\* first, then model step and tool step in turns.
Alternates(nodes) ==
    /\ nodes # <<>> => nodes[1] = START
    /\ \A i \in 1..(Len(nodes) - 1) :
          /\ nodes[i + 1] # START
          /\ nodes[i] = START => nodes[i + 1] = "call_model"
          /\ nodes[i] = "call_model" => nodes[i + 1] = "call_tools"
          /\ nodes[i] = "call_tools" => nodes[i + 1] = "call_model"

\* A turn has left the loop only after a model step whose response asked
\* for no tool.
C13_EndsAfterModelStep ==
    op = "send" =>
        /\ Alternates(ran)
        /\ (node = END \/ pc \in {"exit", "done"}) =>
              /\ ran # <<>>
              /\ Last(ran) = "call_model"
              /\ channels.next_action = "end"
              /\ Last(channels.messages).type = "ai"
              /\ Last(channels.messages).tool_calls = <<>>

HistoryShown == pc = "read" /\ op = "history" /\ pc' = "done"

\* C14 as stated: a history call changes no checkpoint of any session, and
\* returns what the previous history call on the session returned when no
\* turn ran on the session in between.
C14_SameWithoutTurn ==
    [][HistoryShown =>
          /\ store' = store
          /\ pending' = pending
          /\ shown.sid = session => result' = shown.messages]_vars

\* C14, amended: ... when neither a turn nor a replay ran on the session in
\* between.
C14_SameWithoutTurnOrReplay ==
    [][HistoryShown =>
          /\ store' = store
          /\ pending' = pending
          /\ clock' = clock
          /\ (shown.sid = session /\ ~shown.replayed) => result' = shown.messages]_vars

C14_Witness ==
    /\ pc = "done"
    /\ op = "history"
    /\ shown.sid = session
    /\ shown.again
    /\ result # <<>>
    /\ result = shown.messages
    /\ store = base

\* C15: what the sessions command gets from list_sessions is exactly the
\* session identifiers with at least one checkpoint in the store, each once
\* (so nothing on an empty store, one identifier after one turn on a fresh
\* store).  Stated for the behaviours without an injected failure.
C15_ListsExactlyStoredSessions ==
    (op = "sessions" /\ pc = "done" /\ faults = 0) =>
        \A s \in Sessions \cup AutoIds :
            Cardinality({i \in DOMAIN result : result[i] = s})
                = IF \E c \in store : c.sid = s THEN 1 ELSE 0

\* The running history or replay names a session that had no checkpoint
\* when it began.
OnMissingSession ==
    /\ op \in {"history", "replay"}
    /\ OfThread(base, session) = {}

\* C16: a history or a replay for a session without checkpoints writes no
\* checkpoint for the session and runs no node, and ends (unless cancelled)
\* with the "not found" line or the error line, an empty result and no
\* answer.
C16_MissingSessionSignalled ==
    /\ (OnMissingSession /\ pc \in {"read", "loop", "exit", "done"}) =>
          /\ OfThread(store, session) = {}
          /\ pending = <<>>
          /\ ran = <<>>
          /\ pc # "loop"
    /\ (OnMissingSession /\ pc = "done" /\ outcome # "cancelled") =>
          /\ outcome \in {"not_found", "error"}
          /\ op = "history" => outcome = "not_found"
          /\ op = "replay" => outcome = "error" /\ exc = "no_input"
          /\ result = <<>>
          /\ answer = "none"

C16_Witness ==
    /\ op = "replay"
    /\ pc = "done"
    /\ OfThread(base, session) = {}
    /\ base # {}
    /\ outcome = "error"
    /\ exc = "no_input"
    /\ store = base

\* What the running turn or replay has made, and what it started from, is
\* its own session's: the checkpoints it creates carry its thread_id and
\* descend from a checkpoint of that thread, a turn's seed is built from the
\* thread's own latest checkpoint, a replay's from a checkpoint of the thread.
OwnSessionOnly ==
    (op \in {"send", "replay"} /\ pc \in {"loop", "exit", "done"}) =>
        /\ \A c \in Written \cup {pending[i] : i \in DOMAIN pending} :
              /\ c.sid = session
              /\ \A d \in Checkpointed : d.id = c.parent => d.sid = session
        /\ op = "send" =>
              \E text \in UserTexts :
                  seed = LatestTranscript(OfThread(base, session), session)
                            \o <<HumanMessage(text)>>
        /\ Replaying =>
              \E saved \in OfThread(base, session) :
                  saved.id = from /\ seed = saved.values.messages

C18_HandleReleased ==
    /\ pc \in {"loop", "read", "exit"} => handle /\ op \in {"send", "replay", "sessions", "history"}
    /\ pc \in {"done", "idle"} => ~handle

C18_Witness ==
    /\ pc = "done"
    /\ op = "send"
    /\ outcome = "error"
    /\ exc = "model"
    /\ ran # <<>>
    /\ ~handle

\* C19: a send without a session identifier runs on an identifier that no
\* checkpoint of the store carried when the send began, and so starts from
\* the user message alone.  Stated for the behaviours without an injected
\* failure.
C19_GeneratedIdIsFresh ==
    (op = "send" /\ generated /\ faults = 0 /\ pc \in {"loop", "exit", "done"}) =>
        /\ OfThread(base, session) = {}
        /\ \E text \in UserTexts : seed = <<HumanMessage(text)>>

\* The position of the message a tool result at position j answers to: the
\* nearest earlier message that is not a tool result (0 if none).
BatchOwner(messages, j) ==
    IF \E i \in 1..(j - 1) : messages[i].type # "tool"
    THEN CHOOSE i \in 1..(j - 1) :
            /\ messages[i].type # "tool"
            /\ \A k \in (i + 1)..(j - 1) : messages[k].type = "tool"
    ELSE 0

\* Every tool request of the transcript is followed by a tool result with
\* its id in the batch right after its assistant message, and every tool
\* result carries the id of a request of the assistant message right before
\* its batch.
WellPaired(messages) ==
    /\ \A i \in DOMAIN messages :
          \A r \in DOMAIN messages[i].tool_calls :
              \E j \in (i + 1)..Len(messages) :
                  /\ messages[j].type = "tool"
                  /\ BatchOwner(messages, j) = i
                  /\ messages[j].tool_call_id = messages[i].tool_calls[r].id
    /\ \A j \in DOMAIN messages :
          messages[j].type = "tool" =>
              LET i == BatchOwner(messages, j)
              IN  /\ i # 0
                  /\ messages[i].type = "ai"
                  /\ \E r \in DOMAIN messages[i].tool_calls :
                        messages[i].tool_calls[r].id = messages[j].tool_call_id

\* C20: whenever the model step is about to be invoked, in a turn or in a
\* replay, the transcript it will be given has no unanswered and no orphan
\* request id.  Stated for the behaviours without an injected failure.
C20_TranscriptWellPaired ==
    (pc = "loop" /\ node = "call_model" /\ faults = 0) => WellPaired(channels.messages)

\* A turn has ended with the error of a failed model call.
TurnAborted == op = "send" /\ pc = "done" /\ exc = "model" /\ outcome = "error"

\* C21 as stated: after a turn aborted by a failed model call,
\* get_session_history returns for its session what it returned before the
\* turn began.
C21_AbortRestoresTranscript ==
    TurnAborted =>
        get_session_history(store, session) = get_session_history(base, session)

\* C21, amended: after a turn aborted by a failed model call, none of whose
\* checkpoint writes failed, get_session_history returns the transcript the
\* failed model step was given: the transcript from before the turn, the
\* turn's user message, and the messages of the steps the turn completed;
\* it differs from the transcript before the turn by at least that user
\* message, which the seed of the next turn therefore contains.
C21_AbortKeepsCompletedSteps ==
    (TurnAborted /\ lost = {}) =>
        LET before == get_session_history(base, session)
            after == get_session_history(store, session)
        IN  /\ after = channels.messages
            /\ IsPrefix(seed, after)
            /\ \E text \in UserTexts : seed = before \o <<HumanMessage(text)>>
            /\ after # before

C21_Witness ==
    /\ TurnAborted
    /\ lost = {}
    /\ get_session_history(base, session) # <<>>
    /\ get_session_history(store, session)
          = get_session_history(base, session) \o <<HumanMessage("q")>>
    /\ ran = <<START, "call_model">>

\* C22: the answer printed for a send or a replay that has completed, having
\* run at least one step, is the content of the last message of the final
\* transcript, an assistant message the run itself appended (nothing is
\* printed when that content is empty).  Stated for the behaviours without
\* an injected failure.
C22_AnswerIsTerminalMessage ==
    (op \in {"send", "replay"} /\ pc = "done" /\ outcome = "done"
        /\ ran # <<>> /\ faults = 0) =>
        LET terminal == Last(channels.messages)
        IN  /\ terminal.type = "ai"
            /\ Len(channels.messages) > Len(seed)
            /\ answer = IF terminal.content # "" THEN terminal.content ELSE "none"

=============================================================================
